---- MODULE Spec2Model ----
(***************************************************************************)
(* PVOutput sensor platform (homeassistant/components/pvoutput/sensor.py). *)
(*                                                                         *)
(* The module models one config entry of the integration: the descriptor   *)
(* table SENSORS, the coroutine async_setup_entry with its single await,   *)
(* the entity constructor PVOutputSensorEntity.__init__, the property      *)
(* native_value, and the two collaborators the platform consumes: the      *)
(* data-update coordinator (its `data` snapshot and refresh outcome) and   *)
(* the host that calls setup and reads the registered entities.            *)
(***************************************************************************)
EXTENDS Integers, Sequences, FiniteSets, TLC

(***************************************************************************)
(* Bounds of the model.                                                    *)
(***************************************************************************)
\* Status snapshots carry the readings Reading(f, k) for k \in 0..MaxReading.
MaxReading == 2

(***************************************************************************)
(* Python values: None, numbers, and the outcome of a raised exception.    *)
(***************************************************************************)
None == [tag |-> "None"]

Num(v) == [tag |-> "num", v |-> v]

Raised(exc) == [tag |-> "raised", exc |-> exc]

IsNumber(x) == (x.tag = "num")

IsRaised(x) == (x.tag = "raised")

\* const.py: DOMAIN, imported at sensor.py line 28 (DOMAIN is a TLA+ keyword).
PVOUTPUT_DOMAIN == "pvoutput"

(***************************************************************************)
(* SENSORS: the descriptor table.  value_fn is a lambda reading one        *)
(* attribute of the Status object; value_attr names that attribute, copied *)
(* per descriptor from the lambda's body.                                  *)
(***************************************************************************)
SENSORS_SwappedPower ==
    << [key |-> "energy_consumption", name |-> "Energy consumed",
        native_unit_of_measurement |-> "ENERGY_WATT_HOUR",
        device_class |-> "ENERGY", state_class |-> "TOTAL_INCREASING",
        value_attr |-> "energy_consumption"],
       [key |-> "energy_generation", name |-> "Energy generated",
        native_unit_of_measurement |-> "ENERGY_WATT_HOUR",
        device_class |-> "ENERGY", state_class |-> "TOTAL_INCREASING",
        value_attr |-> "energy_generation"],
       [key |-> "normalized_output", name |-> "Efficiency",
        native_unit_of_measurement |-> "ENERGY_KILO_WATT_HOUR/KILO_WATT",
        device_class |-> "None", state_class |-> "MEASUREMENT",
        value_attr |-> "normalized_output"],
       [key |-> "power_consumption", name |-> "Power consumed",
        native_unit_of_measurement |-> "WATT",
        device_class |-> "POWER", state_class |-> "MEASUREMENT",
        value_attr |-> "power_consumption"],
       [key |-> "power_generation", name |-> "Power generated",
        native_unit_of_measurement |-> "WATT",
        device_class |-> "POWER", state_class |-> "MEASUREMENT",
        value_attr |-> "power_consumption"],
       [key |-> "temperature", name |-> "Temperature",
        native_unit_of_measurement |-> "TEMP_CELSIUS",
        device_class |-> "TEMPERATURE", state_class |-> "MEASUREMENT",
        value_attr |-> "temperature"],
       [key |-> "voltage", name |-> "Voltage",
        native_unit_of_measurement |-> "VOLT",
        device_class |-> "VOLTAGE", state_class |-> "MEASUREMENT",
        value_attr |-> "voltage"] >>

SENSORS ==
    << [key |-> "energy_consumption", name |-> "Energy consumed",
        native_unit_of_measurement |-> "ENERGY_WATT_HOUR",
        device_class |-> "ENERGY", state_class |-> "TOTAL_INCREASING",
        value_attr |-> "energy_consumption"],
       [key |-> "energy_generation", name |-> "Energy generated",
        native_unit_of_measurement |-> "ENERGY_WATT_HOUR",
        device_class |-> "ENERGY", state_class |-> "TOTAL_INCREASING",
        value_attr |-> "energy_generation"],
       [key |-> "normalized_output", name |-> "Efficiency",
        native_unit_of_measurement |-> "ENERGY_KILO_WATT_HOUR/KILO_WATT",
        device_class |-> "None", state_class |-> "MEASUREMENT",
        value_attr |-> "normalized_output"],
       [key |-> "power_consumption", name |-> "Power consumed",
        native_unit_of_measurement |-> "WATT",
        device_class |-> "POWER", state_class |-> "MEASUREMENT",
        value_attr |-> "power_consumption"],
       [key |-> "power_generation", name |-> "Power generated",
        native_unit_of_measurement |-> "WATT",
        device_class |-> "POWER", state_class |-> "MEASUREMENT",
        value_attr |-> "power_generation"],
       [key |-> "temperature", name |-> "Temperature",
        native_unit_of_measurement |-> "TEMP_CELSIUS",
        device_class |-> "TEMPERATURE", state_class |-> "MEASUREMENT",
        value_attr |-> "temperature"],
       [key |-> "voltage", name |-> "Voltage",
        native_unit_of_measurement |-> "VOLT",
        device_class |-> "VOLTAGE", state_class |-> "MEASUREMENT",
        value_attr |-> "voltage"] >>

(***************************************************************************)
(* pvo.Status as the platform sees it: an object with the seven attributes *)
(* the lambdas read, each a number or None.                                *)
(***************************************************************************)
StatusFields ==
    {"energy_consumption", "energy_generation", "normalized_output",
     "power_consumption", "power_generation", "temperature", "voltage"}

\* Readings used to enumerate snapshots: level 0 is the reading 0, and the
\* levels k > 0 are distinct per field, so a value read from the wrong field
\* is told apart (power_consumption: 100, 150, ...).
Scale ==
    [energy_consumption |-> 2500, energy_generation |-> 3000,
     normalized_output |-> 1, power_consumption |-> 50,
     power_generation |-> 60, temperature |-> 10, voltage |-> 115]

Reading(f, k) == IF k = 0 THEN 0 ELSE Scale[f] * (k + 1)

\* The snapshot with reading level k and the fields of `unset` absent.
MkStatus(k, unset) ==
    [f \in StatusFields |-> IF f \in unset THEN None ELSE Num(Reading(f, k))]

\* Snapshots the coordinator may hold: everything populated, exactly one
\* field unset, or every field unset.
UnsetChoices == {{}} \cup {{f} : f \in StatusFields} \cup {StatusFields}

Statuses == {MkStatus(k, u) : k \in 0..MaxReading, u \in UnsetChoices}

\* pvo.System: the metadata returned by system().
Systems ==
    {[inverter_brand |-> "Fronius", system_name |-> "Roof"],
     [inverter_brand |-> "SMA", system_name |-> "Garage"]}

\* entry.data[CONF_SYSTEM_ID]
SystemIds == {"12345", "67890"}

NoSystem == [inverter_brand |-> "", system_name |-> ""]

NoRead == [key |-> "", value |-> None]

VARIABLES
    pc,            \* position of async_setup_entry: idle, awaiting, done, failed
    system_id,     \* entry.data[CONF_SYSTEM_ID]
    system,        \* the local `system` of async_setup_entry once fetched
    result,        \* outcome of the current run: "pending", "None" or "raised"
    systemCalls,   \* invocations of coordinator.pvoutput.system() in this run
    addCalls,      \* invocations of async_add_entities in this run
    entities,      \* entities handed to the host, in registration order
    coordinator,   \* [data, last_update_success] of the shared coordinator
    prevData,      \* the snapshot coordinator.data held before the last replacement
    lastRead       \* the host's last native_value read since the coordinator's
                   \* last refresh: [key, value], NoRead when there is none

vars == <<pc, system_id, system, result, systemCalls, addCalls,
          entities, coordinator, prevData, lastRead>>

(***************************************************************************)
(* str(system_id) and the f-string interpolation {system_id}: system_id is *)
(* a str (line 138), which both leave as it is.                            *)
(***************************************************************************)
Str(s) == s

\* hass.data[DOMAIN][entry.entry_id]: the reference every entity shares.
CoordinatorRef == "hass.data[pvoutput][entry_id]"

(***************************************************************************)
(* PVOutputSensorEntity.__init__                                           *)
(***************************************************************************)
PVOutputSensorEntity_NoKey(coord, description, sid, sys) ==
    [coordinator |-> coord,
     entity_description |-> description,
     unique_id |-> Str(sid),
     device_info |->
        [configuration_url |-> "https://pvoutput.org/list.jsp?sid=" \o Str(sid),
         identifiers |-> {<<PVOUTPUT_DOMAIN, Str(sid)>>},
         manufacturer |-> "PVOutput",
         model |-> sys.inverter_brand,
         name |-> sys.system_name]]

PVOutputSensorEntity_NamePerSensor(coord, description, sid, sys) ==
    [coordinator |-> coord,
     entity_description |-> description,
     unique_id |-> Str(sid) \o "_" \o description.key,
     device_info |->
        [configuration_url |-> "https://pvoutput.org/list.jsp?sid=" \o Str(sid),
         identifiers |-> {<<PVOUTPUT_DOMAIN, Str(sid)>>},
         manufacturer |-> "PVOutput",
         model |-> sys.inverter_brand,
         name |-> sys.system_name \o " " \o description.name]]

PVOutputSensorEntity(coord, description, sid, sys) ==
    [coordinator |-> coord,
     entity_description |-> description,
     unique_id |-> Str(sid) \o "_" \o description.key,
     device_info |->
        [configuration_url |-> "https://pvoutput.org/list.jsp?sid=" \o Str(sid),
         identifiers |-> {<<PVOUTPUT_DOMAIN, Str(sid)>>},
         manufacturer |-> "PVOutput",
         model |-> sys.inverter_brand,
         name |-> sys.system_name]]

(***************************************************************************)
(* description.value_fn(status): attribute access on the Status object.    *)
(* Reading an attribute of None raises AttributeError.                     *)
(***************************************************************************)
value_fn_RaisesOnUnset(description, status) ==
    IF status = None
    THEN Raised("AttributeError")
    ELSE IF status[description.value_attr] = None
         THEN Raised("TypeError")
         ELSE status[description.value_attr]

value_fn_AllOrNothing(description, status) ==
    IF status = None
    THEN Raised("AttributeError")
    ELSE IF \E f \in StatusFields : status[f] = None
         THEN None
         ELSE status[description.value_attr]

value_fn(description, status) ==
    IF status = None
    THEN Raised("AttributeError")
    ELSE status[description.value_attr]

(***************************************************************************)
(* PVOutputSensorEntity.native_value                                       *)
(***************************************************************************)
native_value_Cached(self) ==
    value_fn(self.entity_description, prevData)

native_value(self) ==
    value_fn(self.entity_description, coordinator.data)

(***************************************************************************)
(* The state when the host is about to forward the config entry to the     *)
(* sensor platform: the coordinator already holds a snapshot, no entity    *)
(* exists.                                                                 *)
(***************************************************************************)
Init ==
    /\ pc = "idle"
    /\ system_id \in SystemIds
    /\ system = NoSystem
    /\ result = "pending"
    /\ systemCalls = 0
    /\ addCalls = 0
    /\ entities = << >>
    /\ \E s \in Statuses : coordinator = [data |-> s, last_update_success |-> TRUE]
    /\ prevData = coordinator.data
    /\ lastRead = NoRead

(***************************************************************************)
(* async_setup_entry, up to its await: looks up the coordinator, invokes   *)
(* coordinator.pvoutput.system() and suspends on it.                       *)
(***************************************************************************)
SetupStart_RegisterFirst ==
    /\ pc = "idle"
    /\ pc' = "awaiting"
    /\ result' = "pending"
    /\ systemCalls' = 1
    /\ addCalls' = 1
    /\ entities' = [i \in 1..Len(SENSORS) |->
                      PVOutputSensorEntity(CoordinatorRef, SENSORS[i], system_id, NoSystem)]
    /\ UNCHANGED <<system_id, system, coordinator, prevData, lastRead>>

SetupStart ==
    /\ pc = "idle"
    /\ pc' = "awaiting"
    /\ result' = "pending"
    /\ systemCalls' = 1
    /\ addCalls' = 0
    /\ UNCHANGED <<system_id, system, entities, coordinator, prevData, lastRead>>

(***************************************************************************)
(* async_setup_entry resumed with the metadata: one async_add_entities     *)
(* call with one entity per descriptor, then the coroutine returns None.   *)
(* Nothing suspends between the resume and the return.                     *)
(***************************************************************************)
SystemReturns_OneCallPerEntity(sys) ==
    /\ pc = "awaiting"
    /\ system' = sys
    /\ entities' = entities \o
          [i \in 1..Len(SENSORS) |->
              PVOutputSensorEntity(CoordinatorRef, SENSORS[i], system_id, sys)]
    /\ addCalls' = addCalls + Len(SENSORS)
    /\ result' = "None"
    /\ pc' = "done"
    /\ UNCHANGED <<system_id, systemCalls, coordinator, prevData, lastRead>>

SystemReturns(sys) ==
    /\ pc = "awaiting"
    /\ system' = sys
    /\ entities' = entities \o
          [i \in 1..Len(SENSORS) |->
              PVOutputSensorEntity(CoordinatorRef, SENSORS[i], system_id, sys)]
    /\ addCalls' = addCalls + 1
    /\ result' = "None"
    /\ pc' = "done"
    /\ UNCHANGED <<system_id, systemCalls, coordinator, prevData, lastRead>>

(***************************************************************************)
(* async_setup_entry resumed with an exception from system(): there is no  *)
(* try around the await, so the exception leaves the coroutine.            *)
(***************************************************************************)
SystemRaises_Swallowed ==
    /\ pc = "awaiting"
    /\ entities' = entities \o
          [i \in 1..Len(SENSORS) |->
              PVOutputSensorEntity(CoordinatorRef, SENSORS[i], system_id, NoSystem)]
    /\ addCalls' = addCalls + 1
    /\ result' = "None"
    /\ pc' = "failed"
    /\ UNCHANGED <<system_id, system, systemCalls, coordinator, prevData, lastRead>>

SystemRaises ==
    /\ pc = "awaiting"
    /\ result' = "raised"
    /\ pc' = "failed"
    /\ UNCHANGED <<system_id, system, systemCalls, addCalls, entities,
                   coordinator, prevData, lastRead>>

(***************************************************************************)
(* The coordinator: a successful refresh replaces `data` by a whole new    *)
(* snapshot; a failed refresh keeps the snapshot and clears                *)
(* last_update_success.                                                    *)
(***************************************************************************)
RefreshSucceeds(s) ==
    /\ prevData' = coordinator.data
    /\ coordinator' = [data |-> s, last_update_success |-> TRUE]
    /\ lastRead' = NoRead
    /\ UNCHANGED <<pc, system_id, system, result, systemCalls, addCalls, entities>>

RefreshFails ==
    /\ coordinator' = [coordinator EXCEPT !.last_update_success = FALSE]
    /\ lastRead' = NoRead
    /\ UNCHANGED <<pc, system_id, system, result, systemCalls, addCalls,
                   entities, prevData>>

(***************************************************************************)
(* The host reads native_value of the i-th entity it was handed.           *)
(***************************************************************************)
Read_Refetch(i) ==
    /\ i \in 1..Len(entities)
    /\ lastRead' = [key |-> entities[i].entity_description.key,
                    value |-> native_value(entities[i])]
    /\ systemCalls' = systemCalls + 1
    /\ UNCHANGED <<pc, system_id, system, result, addCalls,
                   entities, coordinator, prevData>>

Read(i) ==
    /\ i \in 1..Len(entities)
    /\ lastRead' = [key |-> entities[i].entity_description.key,
                    value |-> native_value(entities[i])]
    /\ UNCHANGED <<pc, system_id, system, result, systemCalls, addCalls,
                   entities, coordinator, prevData>>

Next ==
    \/ SetupStart
    \/ \E sys \in Systems : SystemReturns(sys)
    \/ SystemRaises
    \/ \E s \in Statuses : RefreshSucceeds(s)
    \/ RefreshFails
    \/ \E i \in 1..Len(SENSORS) : Read(i)

Spec == Init /\ [][Next]_vars

TypeOK ==
    /\ pc \in {"idle", "awaiting", "done", "failed"}
    /\ system_id \in SystemIds
    /\ system \in Systems \cup {NoSystem}
    /\ result \in {"pending", "None", "raised"}
    /\ coordinator.data \in Statuses
    /\ coordinator.last_update_success \in BOOLEAN
    /\ prevData \in Statuses

(***************************************************************************)
(* Helpers of the properties.                                              *)
(***************************************************************************)
HasRead == lastRead.key # ""

DescriptorOf(key) ==
    CHOOSE d \in {SENSORS[i] : i \in 1..Len(SENSORS)} : d.key = key

FullyPopulated(status) == \A f \in StatusFields : status[f] # None

Replaced == prevData # coordinator.data

(***************************************************************************)
(* C1: once async_setup_entry has returned for system identifier S, the    *)
(* registered entities correspond 1:1, in order, to the seven descriptors  *)
(* of SENSORS, each unique_id is S + "_" + its descriptor's key, no two    *)
(* entities share a unique_id, and this stays so through every later       *)
(* snapshot replacement and read.                                          *)
(***************************************************************************)
C1_EntitiesMatchDescriptors ==
    pc = "done" =>
        /\ Len(SENSORS) = 7
        /\ Len(entities) = Len(SENSORS)
        /\ \A i \in 1..Len(entities) :
              /\ entities[i].entity_description = SENSORS[i]
              /\ entities[i].unique_id = system_id \o "_" \o SENSORS[i].key
        /\ \A i, j \in 1..Len(entities) :
              i # j => entities[i].unique_id # entities[j].unique_id
        /\ system_id = "12345" => entities[1].unique_id = "12345_energy_consumption"

C1_Witness ==
    /\ pc = "done"
    /\ Len(entities) = 7
    /\ Replaced
    /\ HasRead

(***************************************************************************)
(* C2: a read of native_value returns the descriptor's field of the        *)
(* snapshot the coordinator holds at the read; after a replacement from    *)
(* power_consumption = 100 to 150 the read of power_consumption returns    *)
(* 150; a read never returns a value that is in neither the old nor the    *)
(* new snapshot.                                                           *)
(***************************************************************************)
C2_ReadSeesCurrentSnapshot ==
    HasRead =>
        /\ lastRead.value = coordinator.data[lastRead.key]
        /\ lastRead.value \in {prevData[lastRead.key], coordinator.data[lastRead.key]}
        /\ ( /\ lastRead.key = "power_consumption"
             /\ prevData["power_consumption"] = Num(100)
             /\ coordinator.data["power_consumption"] = Num(150) )
           => lastRead.value = Num(150)

C2_Witness ==
    /\ lastRead = [key |-> "power_consumption", value |-> Num(150)]
    /\ prevData["power_consumption"] = Num(100)
    /\ coordinator.data["power_consumption"] = Num(150)

(***************************************************************************)
(* C3: when the snapshot's field of a descriptor is unset, the read of     *)
(* that entity returns None and does not raise; and a read of a sibling    *)
(* entity over a snapshot with another field unset returns what it returns *)
(* over the same snapshot with that field populated.                       *)
(***************************************************************************)
C3_UnsetFieldIsolated ==
    HasRead =>
        /\ coordinator.data[lastRead.key] = None => lastRead.value = None
        /\ \A f \in StatusFields \ {lastRead.key} :
              coordinator.data[f] = None =>
                 \A k \in 0..MaxReading :
                    lastRead.value =
                       value_fn(DescriptorOf(lastRead.key),
                                [coordinator.data EXCEPT ![f] = Num(Reading(f, k))])

C3_Witness ==
    /\ HasRead
    /\ IsNumber(lastRead.value)
    /\ \E f \in StatusFields \ {lastRead.key} : coordinator.data[f] = None

C5_FetchFailurePropagates ==
    /\ pc = "failed" =>
          /\ result = "raised"
          /\ addCalls = 0
          /\ entities = << >>
    /\ pc = "done" => result = "None"
    /\ result = "None" => pc = "done"

C5_Witness ==
    /\ pc = "failed"
    /\ result = "raised"

(***************************************************************************)
(* C6: async_add_entities is invoked at most once, with one entity per     *)
(* descriptor: the number of registered entities is zero or seven, never   *)
(* in between.                                                             *)
(***************************************************************************)
C6_RegistrationAtomic ==
    /\ addCalls \in {0, 1}
    /\ Len(entities) \in {0, Len(SENSORS)}
    /\ addCalls = 1 <=> Len(entities) = 7

C6_Witness ==
    /\ addCalls = 1
    /\ Len(entities) = 7

(***************************************************************************)
(* C7: a run of async_setup_entry invokes system() exactly once, at its    *)
(* single suspension, before anything is registered; no later read or      *)
(* snapshot replacement invokes it again.                                  *)
(***************************************************************************)
C7_SystemFetchedOnce ==
    /\ pc = "idle" => systemCalls = 0
    /\ pc # "idle" => systemCalls = 1
    /\ pc = "awaiting" => (addCalls = 0 /\ result = "pending")

C7_Witness ==
    /\ pc = "done"
    /\ systemCalls = 1
    /\ HasRead
    /\ Replaced
    /\ coordinator.last_update_success

(***************************************************************************)
(* C8: a read of an entity happens only after the metadata fetch has       *)
(* completed and the entity has been registered; before setup returns,     *)
(* and while it is suspended on the fetch, no entity exists.               *)
(***************************************************************************)
C8_RegisteredBeforeRead ==
    /\ HasRead =>
          /\ pc = "done"
          /\ system \in Systems
          /\ \E i \in 1..Len(entities) :
                entities[i].entity_description.key = lastRead.key
    /\ pc \in {"idle", "awaiting"} => entities = << >>

C8_Witness ==
    /\ HasRead
    /\ pc = "done"
    /\ ~Replaced

(***************************************************************************)
(* C9: every registered entity carries the same device info: model is the  *)
(* fetched inverter brand, name the fetched system name, manufacturer      *)
(* "PVOutput", identifiers {(DOMAIN, system_id)} and configuration URL     *)
(* "https://pvoutput.org/list.jsp?sid=" + system_id; snapshot              *)
(* replacements do not change it.                                          *)
(***************************************************************************)
C9_SharedDeviceInfo ==
    /\ \A i \in 1..Len(entities) :
          entities[i].device_info =
             [configuration_url |-> "https://pvoutput.org/list.jsp?sid=" \o system_id,
              identifiers |-> {<<PVOUTPUT_DOMAIN, system_id>>},
              manufacturer |-> "PVOutput",
              model |-> system.inverter_brand,
              name |-> system.system_name]
    /\ (pc = "done" /\ system_id = "12345") =>
          entities[7].device_info.configuration_url
             = "https://pvoutput.org/list.jsp?sid=12345"
    /\ pc = "done" => system \in Systems

C9_Witness ==
    /\ pc = "done"
    /\ Len(entities) = 7
    /\ system_id = "12345"
    /\ system.inverter_brand = "SMA"
    /\ Replaced

(***************************************************************************)
(* C10: over a snapshot with every field populated, each of the seven      *)
(* entities reads the value of the field named by its descriptor's key,    *)
(* and a field holding 0 reads as 0, not as None.                          *)
(***************************************************************************)
C10_ExtractsOwnField ==
    /\ {SENSORS[i].key : i \in 1..Len(SENSORS)} = StatusFields
    /\ (HasRead /\ FullyPopulated(coordinator.data)) =>
          /\ lastRead.key \in StatusFields
          /\ IsNumber(lastRead.value)
          /\ lastRead.value = coordinator.data[lastRead.key]
          /\ coordinator.data[lastRead.key] = Num(0) => lastRead.value = Num(0)

C10_Witness ==
    /\ HasRead
    /\ lastRead.key = "power_generation"
    /\ FullyPopulated(coordinator.data)
    /\ lastRead.value = Num(Reading("power_generation", 1))
    /\ coordinator.data["power_consumption"] # lastRead.value
====
